---- MODULE Spec2Model ----
(***************************************************************************)
(* A model of the big-words Obsidian plugin (src/main.ts): the word        *)
(* counter shown in the status bar, the frontmatter stripper, the word     *)
(* frequency aggregator and the event handlers that recompute the label.   *)
(*                                                                         *)
(* Text is a sequence of UTF-16 code units (integers), so that the         *)
(* character classes of the regular expressions (\s, ., [a-zA-ZÀ-ÿ]) and   *)
(* String.prototype.toLowerCase are computed the way the engine does.      *)
(***************************************************************************)
EXTENDS Integers, Sequences, FiniteSets, TLC

VARIABLES
    pc,             \* position of onload(): "init", "loading", "done", "failed"
    settings,       \* this.settings (undefined until loadSettings assigns it)
    statusBarItem,  \* text of this.statusBarItem (undefined until created)
    activeView,     \* workspace.getActiveViewOfType(MarkdownView) is non-null
    doc,            \* the editor buffer, a sequence of text fragments
    sel,            \* the editor selection, <<from, to>> in fragment offsets
    events,         \* host events dispatched to the plugin and not yet handled
    saving,         \* toggle handlers suspended at `await saveSettings()`
    modal,          \* <<wordFrequency>> of the modal last opened, or <<>>
    text,           \* argument of the text functions called on their own
    stripped,       \* successive results of removeFrontMatter on text
    counts,         \* {<<flag, countWords(text)>>} for the flags called
    frequency       \* <<getWordFrequency(text)>> once called

vars == <<pc, settings, statusBarItem, activeView, doc, sel, events, saving,
          modal, text, stripped, counts, frequency>>

pluginVars == <<pc, settings, statusBarItem, activeView, doc, sel, events,
                saving, modal>>

callVars == <<text, stripped, counts, frequency>>

----------------------------------------------------------------------------
(* Bounds of the model.                                                    *)

\* fragments in a text handed to removeFrontMatter on its own
MaxFMPieces == 5
\* fragments in a text handed to countWords / getWordFrequency on their own
MaxWordPieces == 4
\* fragments in the editor buffer of the plugin
MaxDocPieces == 2
\* toggle handlers that may be suspended on a save at the same time
MaxSaving == 2

----------------------------------------------------------------------------
(* Characters.                                                             *)

LF == 10
CR == 13
SPACE == 32
DASH == 45
UPPER_A == 65
UPPER_Z == 90
LOWER_A == 97
LOWER_Z == 122
A_GRAVE == 192
MULTIPLICATION_SIGN == 215
THORN_UPPER == 222
Y_DIAERESIS == 255

\* \s of an ECMAScript regular expression: WhiteSpace and LineTerminator
WhiteSpace ==
    {9, LF, 11, 12, CR, SPACE, 160, 5760} \cup (8192..8202)
        \cup {8232, 8233, 8239, 8287, 12288, 65279}

\* what `.` does not match and what `^` (flag m) matches after
LineTerminator == {LF, CR, 8232, 8233}

\* the class [a-zA-ZÀ-ÿ] of hasLetter
hasLetterClass ==
    (LOWER_A..LOWER_Z) \cup (UPPER_A..UPPER_Z) \cup (A_GRAVE..Y_DIAERESIS)

Min(S) == CHOOSE x \in S : \A y \in S : x <= y
Max(S) == CHOOSE x \in S : \A y \in S : x >= y

\* the characters of t from position i to its end
From(t, i) == SubSeq(t, i, Len(t))

RECURSIVE Flatten(_)
Flatten(ps) == IF ps = <<>> THEN <<>> ELSE Head(ps) \o Flatten(Tail(ps))

\* the fragment sequences of at most n fragments of P
RECURSIVE PiecesUpTo(_, _)
PiecesUpTo(P, n) ==
    IF n = 0 THEN {<<>>}
    ELSE LET S == PiecesUpTo(P, n - 1)
         IN  S \cup {Append(s, p) : s \in S, p \in P}

----------------------------------------------------------------------------
(* removeFrontMatter: text.replace(/^---\s*\n(?:.*\n)*?---\s*\n/m, "")     *)

\* the literal `---` at position p
Dashes(t, p) ==
    /\ p + 2 <= Len(t)
    /\ t[p] = DASH /\ t[p + 1] = DASH /\ t[p + 2] = DASH

\* `\s*\n` from position q: the positions right after a \n that only
\* whitespace separates from q (one per length \s* can take)
NewlineEnds(t, q) ==
    {i + 1 : i \in {j \in q..Len(t) :
                      /\ t[j] = LF
                      /\ \A k \in q..(j - 1) : t[k] \in WhiteSpace}}

\* `.*\n` from position q: the position after the line, 0 if `.` meets a
\* line terminator other than \n, or the text ends, before a \n
LineEnd(t, q) ==
    LET stops == {i \in q..Len(t) : t[i] \in LineTerminator}
    IN  IF stops = {} THEN 0
        ELSE IF t[Min(stops)] = LF THEN Min(stops) + 1 ELSE 0

\* the closing `---\s*\n` at q; \s* is greedy, so the longest run wins
CloseAt(t, q) ==
    IF Dashes(t, q) /\ NewlineEnds(t, q + 3) # {}
    THEN Max(NewlineEnds(t, q + 3)) ELSE 0

\* `(?:.*\n)*?---\s*\n` from q: lazy, so the closing delimiter is tried
\* before one more line is consumed
RECURSIVE LinesThenClose(_, _)
LinesThenClose(t, q) ==
    IF CloseAt(t, q) # 0 THEN CloseAt(t, q)
    ELSE IF LineEnd(t, q) = 0 THEN 0
    ELSE LinesThenClose(t, LineEnd(t, q))

\* the whole pattern from p, without the anchor: the position after the
\* match, 0 when there is none. The opening \s* is greedy: the longest
\* run from which the rest matches.
MatchFrom(t, p) ==
    IF ~Dashes(t, p) THEN 0
    ELSE LET opens == {e \in NewlineEnds(t, p + 3) : LinesThenClose(t, e) # 0}
         IN  IF opens = {} THEN 0 ELSE LinesThenClose(t, Max(opens))

\* `^` under flag m: the start of the text or right after a line terminator
AtLineStart(t, p) == p = 1 \/ t[p - 1] \in LineTerminator

\* where the closing delimiter found by LinesThenClose starts
RECURSIVE CloserStart(_, _)
CloserStart(t, q) ==
    IF CloseAt(t, q) # 0 THEN q
    ELSE IF LineEnd(t, q) = 0 THEN 0
    ELSE CloserStart(t, LineEnd(t, q))

\* removeFrontMatter with the closing delimiter only looked at, as in
\* /^---\s*\n(?:.*\n)*?(?=---\s*\n)/m: the match ends in front of it
removeFrontMatterKeepingCloser(t) ==
    LET starts == {p \in 1..Len(t) : AtLineStart(t, p) /\ MatchFrom(t, p) # 0}
    IN  IF starts = {} THEN t
        ELSE LET p == Min(starts)
                 opens == {e \in NewlineEnds(t, p + 3) :
                             LinesThenClose(t, e) # 0}
             IN  SubSeq(t, 1, p - 1) \o From(t, CloserStart(t, Max(opens)))

\* replace() without flag g: the leftmost match is replaced by ""
removeFrontMatter(t) ==
    LET starts == {p \in 1..Len(t) : AtLineStart(t, p) /\ MatchFrom(t, p) # 0}
    IN  IF starts = {} THEN t
        ELSE LET p == Min(starts)
             IN  SubSeq(t, 1, p - 1) \o From(t, MatchFrom(t, p))

----------------------------------------------------------------------------
(* countWords and getWordFrequency                                         *)

\* text.split(/\s+/): the pieces between the whitespace runs, the empty
\* ones at both ends included ("" gives [""], "a " gives ["a", ""])
RECURSIVE split(_)
split(t) ==
    LET ws == {i \in 1..Len(t) : t[i] \in WhiteSpace}
    IN  IF ws = {} THEN <<t>>
        ELSE LET i == Min(ws)
                 rest == {j \in (i + 1)..Len(t) : t[j] \notin WhiteSpace}
                 j == IF rest = {} THEN Len(t) + 1 ELSE Min(rest)
             IN  <<SubSeq(t, 1, i - 1)>> \o split(From(t, j))

\* hasLetter.test(word)
hasLetter(word) == \E i \in 1..Len(word) : word[i] \in hasLetterClass

nonEmpty(word) == Len(word) > 0

\* words with the filter of the simple branch forgotten: the empty pieces
\* split leaves at both ends are kept
wordsKeepingEmpty(t, countOnlyActualWords) ==
    IF countOnlyActualWords
    THEN SelectSeq(split(t), hasLetter)
    ELSE split(t)

\* the words both functions work on, under this.settings.countOnlyActualWords
words(t, countOnlyActualWords) ==
    IF countOnlyActualWords
    THEN SelectSeq(split(t), hasLetter)
    ELSE SelectSeq(split(t), nonEmpty)

countWords(t, countOnlyActualWords) == Len(words(t, countOnlyActualWords))

\* String.prototype.toLowerCase on one code unit below 256 (the texts of
\* the model hold no others): A-Z and À-Þ except × move by 32
lowerUnit(c) ==
    IF \/ c \in UPPER_A..UPPER_Z
       \/ (c \in A_GRAVE..THORN_UPPER /\ c # MULTIPLICATION_SIGN)
    THEN c + 32 ELSE c

toLowerCase(word) == [i \in 1..Len(word) |-> lowerUnit(word[i])]

\* JavaScript values a property of wordFrequency can hold
Num(n) == [type |-> "number", num |-> n, str |-> ""]
Str(s) == [type |-> "string", num |-> 0, str |-> s]

\* the all-lowercase property names `{}` inherits from Object.prototype
CONSTRUCTOR == <<99, 111, 110, 115, 116, 114, 117, 99, 116, 111, 114>>
PROTO == <<95, 95, 112, 114, 111, 116, 111, 95, 95>>

\* (wordFrequency[key] || 0) + 1: an own property first, then the
\* prototype chain; a number is incremented, anything else is an object or
\* a string, which `+ 1` turns into a string ending in "1"
Incremented(obj, key) ==
    IF key \in DOMAIN obj
    THEN IF obj[key].type = "number"
         THEN Num(obj[key].num + 1)
         ELSE Str(obj[key].str \o "1")
    ELSE IF key = CONSTRUCTOR THEN Str("function Object() { [native code] }1")
    ELSE IF key = PROTO THEN Str("[object Object]1")
    ELSE Num(1)

\* wordFrequency[key] = v: the __proto__ setter ignores a value that is
\* not an object; any other key becomes an own property
Assigned(obj, key, v) ==
    IF key = PROTO THEN obj
    ELSE [k \in DOMAIN obj \cup {key} |-> IF k = key THEN v ELSE obj[k]]

\* the loop `for (const word of words)`
RECURSIVE Accumulate(_, _)
Accumulate(obj, ws) ==
    IF ws = <<>> THEN obj
    ELSE LET key == toLowerCase(Head(ws))
         IN  Accumulate(Assigned(obj, key, Incremented(obj, key)), Tail(ws))

getWordFrequency(t, countOnlyActualWords) ==
    Accumulate(<<>>, words(t, countOnlyActualWords))

----------------------------------------------------------------------------
(* The plugin: settings, status bar label, handlers.                       *)

\* what a field holds before the code assigns it
Undefined == "undefined"

Fields == {"countOnlyActualWords", "excludeFrontmatter"}

DEFAULT_SETTINGS ==
    [countOnlyActualWords |-> TRUE, excludeFrontmatter |-> TRUE]

\* what loadData() can resolve with: null (the empty blob) or an object
\* saved earlier, possibly by a version that knew fewer fields
Blobs == UNION {[F -> BOOLEAN] : F \in SUBSET Fields}

\* Object.assign({}, DEFAULT_SETTINGS, blob)
loadSettings(blob) ==
    [f \in Fields |-> IF f \in DOMAIN blob THEN blob[f] ELSE DEFAULT_SETTINGS[f]]

\* the fragments the editor buffer is made of: "---\n", "a" and " "
DocPieces == {<<DASH, DASH, DASH, LF>>, <<LOWER_A>>, <<SPACE>>}

\* editor.getValue()
getValue(d) == Flatten(d)

\* editor.getSelection()
getSelection(d, s) == Flatten(SubSeq(d, s[1] + 1, s[2]))

\* the selections of a buffer: collapsed, or a run of whole fragments
Selections(d) ==
    {<<0, 0>>} \cup {s \in (0..Len(d)) \X (0..Len(d)) : s[1] < s[2]}

\* String.prototype.trim
trim(t) ==
    LET ns == {i \in 1..Len(t) : t[i] \notin WhiteSpace}
    IN  IF ns = {} THEN <<>> ELSE SubSeq(t, Min(ns), Max(ns))

\* the template literal `${wordCount} words`
wordsLabel(n) == ToString(n) \o " words"

\* updateWordCount with the frontmatter setting applied before the branch
\* on the selection, so that a selection is stripped too
updateWordCountStrippingSelection(view, selection, value, st) ==
    LET strip(t) == IF st.excludeFrontmatter THEN removeFrontMatter(t) ELSE t
    IN  IF ~view THEN "No editor"
        ELSE IF selection # <<>> /\ Len(trim(selection)) > 0
        THEN wordsLabel(countWords(strip(selection), st.countOnlyActualWords))
        ELSE wordsLabel(countWords(strip(value), st.countOnlyActualWords))

\* updateWordCount(): the text the status bar item is set to
updateWordCount(view, selection, value, st) ==
    IF ~view THEN "No editor"
    ELSE IF selection # <<>> /\ Len(trim(selection)) > 0
    THEN wordsLabel(countWords(selection, st.countOnlyActualWords))
    ELSE LET t == IF st.excludeFrontmatter THEN removeFrontMatter(value)
                  ELSE value
         IN  wordsLabel(countWords(t, st.countOnlyActualWords))

\* onload with the initial updateWordCount() of line 74 left out
onloadLabelWithoutUpdate(view, selection, value, st) == "Words: 0"

\* the label onload leaves behind: setText("Words: 0") at creation, then
\* the initial updateWordCount() before onload returns
onloadLabel(view, selection, value, st) ==
    LET created == "Words: 0"
    IN  updateWordCount(view, selection, value, st)

\* showWordFrequencyModal reading the selection when there is one, the
\* way updateWordCount does
showWordFrequencyModalOfSelection(view, selection, value, st, m) ==
    IF ~view THEN m
    ELSE LET whole == IF st.excludeFrontmatter THEN removeFrontMatter(value)
                      ELSE value
             t == IF selection # <<>> /\ Len(trim(selection)) > 0
                  THEN selection ELSE whole
         IN  <<getWordFrequency(t, st.countOnlyActualWords)>>

\* showWordFrequencyModal(): the modal after the click, m being the one
\* before it
showWordFrequencyModal(view, selection, value, st, m) ==
    IF ~view THEN m
    ELSE LET t == IF st.excludeFrontmatter THEN removeFrontMatter(value)
                  ELSE value
         IN  <<getWordFrequency(t, st.countOnlyActualWords)>>

Idle ==
    /\ pc = "init"
    /\ settings = Undefined
    /\ statusBarItem = Undefined
    /\ activeView = FALSE
    /\ doc = <<>>
    /\ sel = <<0, 0>>
    /\ events = {}
    /\ saving = 0
    /\ modal = <<>>

NoCalls ==
    /\ text = <<>>
    /\ stripped = <<>>
    /\ counts = {}
    /\ frequency = <<>>

Init == Idle /\ NoCalls

\* the host calls onload(), which suspends at `await this.loadSettings()`
OnloadStart ==
    /\ pc = "init"
    /\ pc' = "loading"
    /\ UNCHANGED <<settings, statusBarItem, activeView, doc, sel, events,
                   saving, modal>>
    /\ UNCHANGED callVars

\* loadData() resolves: the rest of onload runs without suspending again
\* (settings assigned, item created with "Words: 0", handlers registered,
\* the initial updateWordCount)
LoadDataResolved(blob) ==
    /\ pc = "loading"
    /\ pc' = "done"
    /\ settings' = loadSettings(blob)
    /\ statusBarItem' =
           onloadLabel(activeView, getSelection(doc, sel), getValue(doc),
                       settings')
    /\ UNCHANGED <<activeView, doc, sel, events, saving, modal>>
    /\ UNCHANGED callVars

\* loadData() rejects: loadSettings and onload reject with it, nothing
\* after line 31 runs
LoadDataRejected ==
    /\ pc = "loading"
    /\ pc' = "rejected"
    /\ UNCHANGED <<settings, statusBarItem, activeView, doc, sel, events,
                   saving, modal>>
    /\ UNCHANGED callVars

\* an event reaches the plugin only through a handler onload registered
Dispatched(e) == IF pc = "done" THEN events \cup {e} ELSE events

\* while a modal is open its overlay takes the user's input
Interactive == modal = <<>>

\* the buffers one edit away: a fragment typed at the end, or the last
\* fragment deleted
Edits(d) ==
    {Append(d, p) : p \in IF Len(d) < MaxDocPieces THEN DocPieces ELSE {}}
        \cup (IF d = <<>> THEN {} ELSE {SubSeq(d, 1, Len(d) - 1)})

\* the user edits the buffer; the selection collapses
HostEdit(d) ==
    /\ Interactive
    /\ activeView
    /\ doc' = d
    /\ sel' = <<0, 0>>
    /\ events' = Dispatched("editor-change")
    /\ UNCHANGED <<pc, settings, statusBarItem, activeView, saving, modal>>
    /\ UNCHANGED callVars

\* the user changes the selection
HostSelect(s) ==
    /\ Interactive
    /\ activeView
    /\ s # sel
    /\ sel' = s
    /\ events' = Dispatched("selectionchange")
    /\ UNCHANGED <<pc, settings, statusBarItem, activeView, doc, saving, modal>>
    /\ UNCHANGED callVars

\* the user focuses a markdown view, or a leaf that is none
HostLeafChange ==
    /\ Interactive
    /\ activeView' = ~activeView
    /\ events' = Dispatched("active-leaf-change")
    /\ UNCHANGED <<pc, settings, statusBarItem, doc, sel, saving, modal>>
    /\ UNCHANGED callVars

\* one of the three handlers runs: each calls updateWordCount()
HandleEvent(e) ==
    /\ e \in events
    /\ events' = events \ {e}
    /\ statusBarItem' =
           updateWordCount(activeView, getSelection(doc, sel), getValue(doc),
                           settings)
    /\ UNCHANGED <<pc, settings, activeView, doc, sel, saving, modal>>
    /\ UNCHANGED callVars

\* the click handler of the status bar item
Click ==
    /\ Interactive
    /\ pc = "done"
    /\ modal' = showWordFrequencyModal(activeView, getSelection(doc, sel),
                                        getValue(doc), settings, modal)
    /\ UNCHANGED <<pc, settings, statusBarItem, activeView, doc, sel, events,
                   saving>>
    /\ UNCHANGED callVars

\* the user closes the modal
CloseModal ==
    /\ modal # <<>>
    /\ modal' = <<>>
    /\ UNCHANGED <<pc, settings, statusBarItem, activeView, doc, sel, events,
                   saving>>
    /\ UNCHANGED callVars

\* onChange of a toggle of the settings tab, up to `await saveSettings()`
Toggle(f) ==
    /\ Interactive
    /\ pc = "done"
    /\ saving < MaxSaving
    /\ settings' = [settings EXCEPT ![f] = ~@]
    /\ saving' = saving + 1
    /\ UNCHANGED <<pc, statusBarItem, activeView, doc, sel, events, modal>>
    /\ UNCHANGED callVars

\* saveData resolves: the handler resumes and calls updateWordCount()
SaveResolved ==
    /\ saving > 0
    /\ saving' = saving - 1
    /\ statusBarItem' =
           updateWordCount(activeView, getSelection(doc, sel), getValue(doc),
                           settings)
    /\ UNCHANGED <<pc, settings, activeView, doc, sel, events, modal>>
    /\ UNCHANGED callVars

\* saveData rejects: the handler ends at the await, the line after it
\* never runs
SaveRejected ==
    /\ saving > 0
    /\ saving' = saving - 1
    /\ UNCHANGED <<pc, settings, statusBarItem, activeView, doc, sel, events,
                   modal>>
    /\ UNCHANGED callVars

Next ==
    \/ OnloadStart
    \/ \E blob \in Blobs : LoadDataResolved(blob)
    \/ LoadDataRejected
    \/ \E d \in Edits(doc) : HostEdit(d)
    \/ \E s \in Selections(doc) : HostSelect(s)
    \/ HostLeafChange
    \/ \E e \in events : HandleEvent(e)
    \/ Click
    \/ CloseModal
    \/ \E f \in Fields : Toggle(f)
    \/ SaveResolved
    \/ SaveRejected

Spec == Init /\ [][Next]_vars

----------------------------------------------------------------------------
(* The text functions called on their own, on every text of a bounded set. *)

\* "---\n", "---", "a", " ", "\n" and "\r"
FMPieces ==
    {<<DASH, DASH, DASH, LF>>, <<DASH, DASH, DASH>>, <<LOWER_A>>, <<SPACE>>,
     <<LF>>, <<CR>>}

\* "a", "A", "é" (a letter of À-ÿ), "1" (no letter), " ", "\n" and the
\* word "constructor"
WordPieces ==
    {<<LOWER_A>>, <<UPPER_A>>, <<233>>, <<49>>, <<SPACE>>, <<LF>>, CONSTRUCTOR}

InitFM ==
    /\ Idle
    /\ text \in {Flatten(ps) : ps \in PiecesUpTo(FMPieces, MaxFMPieces)}
    /\ stripped = <<>>
    /\ counts = {}
    /\ frequency = <<>>

\* removeFrontMatter on the text, then on its own result
CallRemoveFrontMatter ==
    /\ Len(stripped) < 2
    /\ stripped' =
           Append(stripped,
                  removeFrontMatter(IF stripped = <<>> THEN text
                                    ELSE stripped[Len(stripped)]))
    /\ UNCHANGED <<text, counts, frequency>>
    /\ UNCHANGED pluginVars

NextFM == CallRemoveFrontMatter

SpecFM == InitFM /\ [][NextFM]_vars

InitWords ==
    /\ Idle
    /\ text \in {Flatten(ps) : ps \in PiecesUpTo(WordPieces, MaxWordPieces)}
    /\ stripped = <<>>
    /\ counts = {}
    /\ frequency = <<>>

CallCountWords(flag) ==
    /\ \A c \in counts : c[1] # flag
    /\ counts' = counts \cup {<<flag, countWords(text, flag)>>}
    /\ UNCHANGED <<text, stripped, frequency>>
    /\ UNCHANGED pluginVars

CallGetWordFrequency(flag) ==
    /\ frequency = <<>>
    /\ frequency' = <<[flag |-> flag, table |-> getWordFrequency(text, flag)]>>
    /\ UNCHANGED <<text, stripped, counts>>
    /\ UNCHANGED pluginVars

NextWords ==
    \/ \E flag \in BOOLEAN : CallCountWords(flag)
    \/ \E flag \in BOOLEAN : CallGetWordFrequency(flag)

SpecWords == InitWords /\ [][NextWords]_vars

----------------------------------------------------------------------------
(* Frontmatter stripper: properties, under SpecFM.                         *)

Delimiter == <<DASH, DASH, DASH>>

\* the end of the line that starts at s: the position of its \n, or one
\* past the text when the last line has none
LineStop(t, s) ==
    LET nl == {i \in s..Len(t) : t[i] = LF}
    IN  IF nl = {} THEN Len(t) + 1 ELSE Min(nl)

\* the line that starts at s consists solely of `---` (trailing
\* whitespace allowed)
DelimiterLine(t, s) ==
    /\ s + 2 <= Len(t)
    /\ SubSeq(t, s, s + 2) = Delimiter
    /\ \A k \in (s + 3)..(LineStop(t, s) - 1) : t[k] \in WhiteSpace

\* the starts of the lines after the first
LaterLineStarts(t) == {s \in 2..Len(t) : t[s - 1] = LF}

\* the closing delimiter lines of a text that begins with a delimiter line
Closers(t) == {s \in LaterLineStarts(t) : DelimiterLine(t, s)}

\* every `---` that can open or close a block: at the start of the text
\* or right after a line terminator, with only whitespace up to a newline
DelimiterStarts(t) ==
    {p \in 1..Len(t) :
        /\ p = 1 \/ t[p - 1] \in LineTerminator
        /\ p + 2 <= Len(t)
        /\ SubSeq(t, p, p + 2) = Delimiter
        /\ \E j \in (p + 3)..Len(t) :
              t[j] = LF /\ \A k \in (p + 3)..(j - 1) : t[k] \in WhiteSpace}

\* C1: a text whose first line is not a `---` line comes back unchanged,
\* also when a `---` ... `---` block appears later in it.
C1_NoLeadingBlockUnchanged ==
    (stripped # <<>> /\ ~DelimiterLine(text, 1)) => stripped[1] = text

\* C2 (as stated): removeFrontMatter applied to its own result changes
\* nothing, for every text.
C2_Idempotent == Len(stripped) = 2 => stripped[2] = stripped[1]

\* C2 (amended): removeFrontMatter applied to its own result changes
\* nothing for every text with fewer than four `---` delimiters.
C2_IdempotentBelowFourDelimiters ==
    (Len(stripped) = 2 /\ Cardinality(DelimiterStarts(text)) < 4)
        => stripped[2] = stripped[1]

\* a text with three delimiters, stripped of its block once and left
\* alone by the second call
C2_Witness ==
    /\ Len(stripped) = 2
    /\ Cardinality(DelimiterStarts(text)) = 3
    /\ stripped[1] # text
    /\ stripped[2] = stripped[1]

\* C3: a text that begins with a `---` line and has a later `---` line
\* comes back as exactly what follows the first such closing line,
\* whether or not a newline ends that line.
C3_LeadingBlockRemoved ==
    (stripped # <<>> /\ DelimiterLine(text, 1) /\ Closers(text) # {})
        => stripped[1] = From(text, LineStop(text, Min(Closers(text))) + 1)

----------------------------------------------------------------------------
(* Tokenizer and frequency aggregator: properties, under SpecWords.        *)

\* where the maximal runs of non-whitespace start
RunStarts(t) ==
    {i \in 1..Len(t) :
        t[i] \notin WhiteSpace /\ (i = 1 \/ t[i - 1] \in WhiteSpace)}

RunEnd(t, i) ==
    Max({j \in i..Len(t) : \A k \in i..j : t[k] \notin WhiteSpace})

Run(t, i) == SubSeq(t, i, RunEnd(t, i))

\* the runs the filter keeps
SurvivingRuns(t, flag) ==
    {i \in RunStarts(t) :
        flag => \E k \in i..RunEnd(t, i) : t[k] \in hasLetterClass}

\* C4: countWords returns the number of maximal non-whitespace runs that
\* survive the filter; empty and whitespace-only text give 0; the count
\* with the flag off is never below the count with it on.
C4_CountIsSurvivingRuns ==
    /\ \A c \in counts :
          /\ c[2] = Cardinality(SurvivingRuns(text, c[1]))
          /\ (\A i \in 1..Len(text) : text[i] \in WhiteSpace) => c[2] = 0
    /\ \A c, d \in counts : (c[1] /\ ~d[1]) => d[2] >= c[2]

\* a text with whitespace in front, counted under both flags, with a run
\* the filter drops and one it keeps
C4_Witness ==
    /\ text # <<>> /\ text[1] \in WhiteSpace
    /\ \E c, d \in counts : c[1] /\ ~d[1] /\ c[2] > 0 /\ d[2] > c[2]

\* C7: getWordFrequency returns the mapping from each distinct lowercased
\* surviving token to the number of surviving tokens that lowercase to it.
C7_FrequencyCounts ==
    frequency # <<>> =>
        LET flag == frequency[1].flag
            table == frequency[1].table
            runs == SurvivingRuns(text, flag)
            keys == {toLowerCase(Run(text, i)) : i \in runs}
        IN  /\ DOMAIN table = keys
            /\ \A k \in keys :
                  table[k] =
                    Num(Cardinality({i \in runs : toLowerCase(Run(text, i)) = k}))

----------------------------------------------------------------------------
(* The plugin: properties, under Spec.                                     *)

\* a step in which updateWordCount() ran
UpdateStep ==
    \/ \E blob \in Blobs : LoadDataResolved(blob)
    \/ \E e \in events : HandleEvent(e)
    \/ SaveResolved

\* a step that ends onload or handles one event
HandlerStep ==
    \/ \E blob \in Blobs : LoadDataResolved(blob)
    \/ \E e \in events : HandleEvent(e)

\* the whole document as it is counted: frontmatter stripped iff enabled
CountedDocument(d, st) ==
    IF st.excludeFrontmatter THEN removeFrontMatter(getValue(d)) ELSE getValue(d)

NonBlank(t) == \E i \in 1..Len(t) : t[i] \notin WhiteSpace

\* the count pipeline on a document, a selection and the settings
CountPipeline(d, s, st) ==
    IF NonBlank(getSelection(d, s))
    THEN countWords(getSelection(d, s), st.countOnlyActualWords)
    ELSE countWords(CountedDocument(d, st), st.countOnlyActualWords)

ExpectedLabel(view, d, s, st) ==
    IF view THEN wordsLabel(CountPipeline(d, s, st)) ELSE "No editor"

\* C5 (as stated): with an active editor, updateWordCount shows the count
\* of the selection alone, unstripped, whenever the selection is a
\* non-empty string, and the count of the whole document only when the
\* selection is empty.
C5_NonEmptySelectionCounted ==
    [][(UpdateStep /\ activeView') =>
          statusBarItem' =
            wordsLabel(countWords(
                IF getSelection(doc', sel') # <<>> THEN getSelection(doc', sel')
                ELSE CountedDocument(doc', settings'),
                settings'.countOnlyActualWords))]_vars

\* C5 (amended): with an active editor, updateWordCount shows the count
\* of the selection alone, unstripped, whenever the selection holds a
\* non-whitespace character, and otherwise (empty or whitespace-only
\* selection) the count of the whole document, stripped iff enabled.
C5_NonBlankSelectionCounted ==
    [][(UpdateStep /\ activeView') =>
          statusBarItem' =
            wordsLabel(countWords(
                IF NonBlank(getSelection(doc', sel')) THEN getSelection(doc', sel')
                ELSE CountedDocument(doc', settings'),
                settings'.countOnlyActualWords))]_vars

\* the label shows the count of a selection that holds a frontmatter
\* block, which stripping would have changed
C5_Witness ==
    /\ pc = "done" /\ activeView /\ events = {} /\ saving = 0
    /\ settings.excludeFrontmatter
    /\ LET s == getSelection(doc, sel)
           flag == settings.countOnlyActualWords
       IN  /\ removeFrontMatter(s) # s
           /\ statusBarItem = wordsLabel(countWords(s, flag))
           /\ countWords(s, flag) # countWords(removeFrontMatter(s), flag)

\* C6: when onload has completed and after every handled event the label
\* is "No editor" exactly when there is no active markdown view and
\* otherwise "<count> words" for the current document, selection and
\* settings; "Words: 0" is never visible once onload has finished.
C6_LabelAfterEveryHandler ==
    [][/\ HandlerStep =>
            statusBarItem' = ExpectedLabel(activeView', doc', sel', settings')
       /\ pc' = "done" => statusBarItem' # "Words: 0"]_vars

\* after onload a selection was made in a non-empty document, its event
\* was handled and the label shows the count of the selection
C6_Witness ==
    /\ pc = "done" /\ activeView /\ events = {} /\ saving = 0
    /\ NonBlank(getSelection(doc, sel))
    /\ getSelection(doc, sel) # getValue(doc)
    /\ statusBarItem = ExpectedLabel(activeView, doc, sel, settings)
    /\ statusBarItem # wordsLabel(countWords(CountedDocument(doc, settings),
                                              settings.countOnlyActualWords))

\* C8 (as stated): the table of a click with an active editor is the
\* aggregator applied to the whole document text as the editor returns
\* it, whatever the selection.
C8_TableOfWholeDocument ==
    [][(Click /\ activeView) =>
          modal' = <<getWordFrequency(getValue(doc),
                                      settings.countOnlyActualWords)>>]_vars

\* C8 (amended): the table of a click with an active editor is the
\* aggregator applied to the whole document text, frontmatter stripped
\* iff excludeFrontmatter is on, whatever the selection.
C8_TableOfStrippedDocument ==
    [][(Click /\ activeView) =>
          modal' = <<getWordFrequency(CountedDocument(doc, settings),
                                      settings.countOnlyActualWords)>>]_vars

\* a modal opened over a document with frontmatter and a selection: its
\* table is that of the stripped document, not of the text nor of the
\* selection
C8_Witness ==
    /\ modal # <<>>
    /\ activeView /\ events = {} /\ saving = 0
    /\ settings.excludeFrontmatter
    /\ NonBlank(getSelection(doc, sel))
    /\ LET flag == settings.countOnlyActualWords
       IN  /\ modal[1] = getWordFrequency(removeFrontMatter(getValue(doc)), flag)
           /\ modal[1] # getWordFrequency(getValue(doc), flag)
           /\ modal[1] # getWordFrequency(getSelection(doc, sel), flag)

\* C9: a failed load of the settings does not stop onload: it goes on
\* with the defaults, registers the handlers and computes the label with
\* them; a field missing from a loaded blob falls back to true.
C9_OnloadSurvivesLoadFailure ==
    [][/\ LoadDataRejected =>
            /\ pc' = "done"
            /\ settings' = DEFAULT_SETTINGS
            /\ statusBarItem' =
                  ExpectedLabel(activeView', doc', sel', DEFAULT_SETTINGS)
       /\ \A blob \in Blobs :
            LoadDataResolved(blob) =>
                \A f \in Fields \ DOMAIN blob : settings'[f] = TRUE]_vars

\* C10: in every state with no toggle handler pending (and no event
\* waiting for its handler) the label agrees with the settings in memory.
C10_LabelAgreesWhenNoTogglePending ==
    (pc = "done" /\ saving = 0 /\ events = {}) =>
        statusBarItem = ExpectedLabel(activeView, doc, sel, settings)

====
